---- MODULE Spec2Model ----
(***************************************************************************)
(* Contact directory service (src/src/server.ts): an Express application   *)
(* answering read-only requests from a MySQL store through a connection    *)
(* pool.  Strings the code inspects character by character (phone numbers, *)
(* query parameters, names, labels) are sequences of one-character         *)
(* strings; JavaScript numbers that may be NaN are records [nan, v].       *)
(***************************************************************************)
EXTENDS Integers, Sequences, FiniteSets, TLC

VARIABLES
  pc,      \* "call"/"returned" for a function call; "idle"/"done" for the server
  req,     \* the call's arguments, or the HTTP request being handled
  resp,    \* the value returned, or the HTTP response sent
  issued,  \* the store queries issued for req, in order
  db,      \* which store queries raise an error while req is handled
  nodeEnv, \* process.env.NODE_ENV
  proc,    \* the process: starting, probed, listening or exited
  pool,    \* the number of pool connections checked out and not released
  sent     \* the number of responses sent for req

vars == <<pc, req, resp, issued, db, nodeEnv, proc, pool, sent>>

(***************************************************************************)
(* Bounds of the model.                                                    *)
(***************************************************************************)
MaxPhoneLen == 4
MaxId == 2
MaxPositive == 3
MaxFailing == 1

(***************************************************************************)
(* Characters and strings.                                                 *)
(***************************************************************************)
Digits == {"0", "1", "2", "3", "4", "5", "6", "7", "8", "9"}

IsDigit(c) == c \in Digits

IsSpace(c) == c = " "

DigitVal(c) ==
  CASE c = "0" -> 0 [] c = "1" -> 1 [] c = "2" -> 2 [] c = "3" -> 3
    [] c = "4" -> 4 [] c = "5" -> 5 [] c = "6" -> 6 [] c = "7" -> 7
    [] c = "8" -> 8 [] c = "9" -> 9

DigitChar(d) ==
  CASE d = 0 -> "0" [] d = 1 -> "1" [] d = 2 -> "2" [] d = 3 -> "3"
    [] d = 4 -> "4" [] d = 5 -> "5" [] d = 6 -> "6" [] d = 7 -> "7"
    [] d = 8 -> "8" [] d = 9 -> "9"

StrsUpTo(alphabet, n) == UNION {[1..k -> alphabet] : k \in 0..n}

startsWith(s, p) == Len(s) >= Len(p) /\ SubSeq(s, 1, Len(p)) = p

substring(s, from) == SubSeq(s, from + 1, Len(s))

Contains(s, t) ==
  \E i \in 0..(Len(s) - Len(t)) : SubSeq(s, i + 1, i + Len(t)) = t

RECURSIVE trimStart(_)
trimStart(s) ==
  IF s # << >> /\ IsSpace(Head(s)) THEN trimStart(Tail(s)) ELSE s

RECURSIVE trimEnd(_)
trimEnd(s) ==
  IF s # << >> /\ IsSpace(s[Len(s)]) THEN trimEnd(SubSeq(s, 1, Len(s) - 1)) ELSE s

trim(s) == trimEnd(trimStart(s))

(***************************************************************************)
(* JavaScript numbers: parseInt, isNaN, Math.min, Math.max, toString.      *)
(***************************************************************************)
Num(n) == [nan |-> FALSE, v |-> n]

NaN == [nan |-> TRUE, v |-> 0]

isNaN(x) == x.nan

MathMin(a, b) ==
  IF a.nan \/ b.nan THEN NaN ELSE IF a.v <= b.v THEN a ELSE b

MathMax(a, b) ==
  IF a.nan \/ b.nan THEN NaN ELSE IF a.v >= b.v THEN a ELSE b

RECURSIVE LeadingDigits(_)
LeadingDigits(s) ==
  IF s # << >> /\ IsDigit(Head(s)) THEN <<Head(s)>> \o LeadingDigits(Tail(s)) ELSE << >>

RECURSIVE DigitsValue(_)
DigitsValue(ds) ==
  IF ds = << >> THEN 0
  ELSE 10 * DigitsValue(SubSeq(ds, 1, Len(ds) - 1)) + DigitVal(ds[Len(ds)])

parseInt(s) ==
  LET t == trimStart(s)
      neg == t # << >> /\ Head(t) = "-"
      signed == t # << >> /\ Head(t) \in {"-", "+"}
      ds == LeadingDigits(IF signed THEN Tail(t) ELSE t)
  IN IF ds = << >> THEN NaN
     ELSE Num(IF neg THEN 0 - DigitsValue(ds) ELSE DigitsValue(ds))

RECURSIVE toString(_)
toString(n) ==
  IF n < 0 THEN <<"-">> \o toString(0 - n)
  ELSE IF n < 10 THEN <<DigitChar(n)>>
  ELSE toString(n \div 10) \o <<DigitChar(n % 10)>>

(***************************************************************************)
(* formatWhatsAppNumber.                                                   *)
(***************************************************************************)
CountryCode == <<"2", "3", "4">>

formatWhatsAppNumberKeepsZero(phone) ==
  IF phone = << >> THEN << >>
  ELSE LET cleaned == SelectSeq(phone, IsDigit)
       IN IF startsWith(cleaned, <<"0">>) THEN CountryCode \o cleaned
          ELSE IF ~startsWith(cleaned, CountryCode) THEN CountryCode \o cleaned
          ELSE cleaned

formatWhatsAppNumber(phone) ==
  IF phone = << >> THEN << >>
  ELSE LET cleaned == SelectSeq(phone, IsDigit)
       IN IF startsWith(cleaned, <<"0">>) THEN CountryCode \o substring(cleaned, 1)
          ELSE IF ~startsWith(cleaned, CountryCode) THEN CountryCode \o cleaned
          ELSE cleaned

(***************************************************************************)
(* The store's eight location/category tables: id -> label.                *)
(***************************************************************************)
FamiliesMdBeforeMk ==
  <<"location", "md", "mk", "muas", "nrt", "field", "medical", "service">>

Families == <<"location", "mk", "md", "muas", "nrt", "field", "medical", "service">>

FamilySet == {Families[i] : i \in 1..Len(Families)}

CatTable ==
  [f \in FamilySet |->
     CASE f = "location" -> (1 :> <<"k", "a", "n", "o">>) @@ (3 :> <<"k", "a", "d">>)
       [] f = "mk"       -> (1 :> <<"m", "k", "1">>)
       [] f = "md"       -> (2 :> <<"m", "d", "2">>)
       [] f = "muas"     -> (1 :> <<"m", "u", "1">>)
       [] f = "nrt"      -> (2 :> <<"n", "r", "2">>)
       [] f = "field"    -> (1 :> <<"f", "d", "1">>)
       [] f = "medical"  -> (2 :> <<"m", "e", "2">>)
       [] f = "service"  -> (1 :> <<"s", "v", "1">>)]

Unknown == <<"U", "n", "k", "n", "o", "w", "n">>

(***************************************************************************)
(* getLocationName.  keys maps each family to the id passed for it;        *)
(* failing is the set of tables whose lookup raises a store error.  The    *)
(* result carries the label, the tables queried in order, and whether the  *)
(* returned promise rejects.                                               *)
(***************************************************************************)
Returned(label, lookups) == [label |-> label, lookups |-> lookups, rejected |-> FALSE]

Rejected(lookups) == [label |-> Unknown, lookups |-> lookups, rejected |-> TRUE]

After(f, r) == [r EXCEPT !.lookups = <<f>> \o @]

RECURSIVE getLocationNameStopAtMiss(_, _, _)
getLocationNameStopAtMiss(i, keys, failing) ==
  IF i > Len(Families) THEN Returned(Unknown, << >>)
  ELSE LET f == Families[i]
       IN IF keys[f] > 0
          THEN IF f \in failing THEN Returned(Unknown, <<f>>)
               ELSE IF keys[f] \in DOMAIN CatTable[f]
                    THEN Returned(CatTable[f][keys[f]], <<f>>)
                    ELSE Returned(Unknown, <<f>>)
          ELSE getLocationNameStopAtMiss(i + 1, keys, failing)

RECURSIVE getLocationNameSkipsError(_, _, _)
getLocationNameSkipsError(i, keys, failing) ==
  IF i > Len(Families) THEN Returned(Unknown, << >>)
  ELSE LET f == Families[i]
       IN IF keys[f] > 0
          THEN IF f \notin failing /\ keys[f] \in DOMAIN CatTable[f]
               THEN Returned(CatTable[f][keys[f]], <<f>>)
               ELSE After(f, getLocationNameSkipsError(i + 1, keys, failing))
          ELSE getLocationNameSkipsError(i + 1, keys, failing)

RECURSIVE getLocationNameRethrows(_, _, _)
getLocationNameRethrows(i, keys, failing) ==
  IF i > Len(Families) THEN Returned(Unknown, << >>)
  ELSE LET f == Families[i]
       IN IF keys[f] > 0
          THEN IF f \in failing THEN Rejected(<<f>>)
               ELSE IF keys[f] \in DOMAIN CatTable[f]
                    THEN Returned(CatTable[f][keys[f]], <<f>>)
                    ELSE After(f, getLocationNameRethrows(i + 1, keys, failing))
          ELSE getLocationNameRethrows(i + 1, keys, failing)

RECURSIVE getLocationNameFrom(_, _, _)
getLocationNameFrom(i, keys, failing) ==
  IF i > Len(Families) THEN Returned(Unknown, << >>)
  ELSE LET f == Families[i]
       IN IF keys[f] > 0
          THEN IF f \in failing THEN Returned(Unknown, <<f>>)
               ELSE IF keys[f] \in DOMAIN CatTable[f]
                    THEN Returned(CatTable[f][keys[f]], <<f>>)
                    ELSE After(f, getLocationNameFrom(i + 1, keys, failing))
          ELSE getLocationNameFrom(i + 1, keys, failing)

getLocationName(keys, failing) == getLocationNameFrom(1, keys, failing)

(***************************************************************************)
(* Specification of the phone normaliser alone.                            *)
(***************************************************************************)
PhoneAlphabet == {"0", "2", "3", "4", "7", "-"}

NoResp == [kind |-> "none"]

NoFault == [pageFails |-> FALSE, countFails |-> FALSE, failing |-> {}, notArray |-> FALSE]

Listening == [state |-> "listening", connected |-> TRUE, exitCode |-> 0]

Production ==
  /\ nodeEnv = "production"
  /\ proc = Listening
  /\ pool = 0
  /\ sent = 0

InitPhone ==
  /\ pc = "call"
  /\ \E p \in StrsUpTo(PhoneAlphabet, MaxPhoneLen) :
       req = [fn |-> "formatWhatsAppNumber", phone |-> p]
  /\ resp = NoResp
  /\ issued = << >>
  /\ db = NoFault
  /\ Production

FormatCall ==
  /\ pc = "call"
  /\ req.fn = "formatWhatsAppNumber"
  /\ resp' = [kind |-> "value", value |-> formatWhatsAppNumber(req.phone)]
  /\ pc' = "returned"
  /\ UNCHANGED <<req, issued, db, nodeEnv, proc, pool, sent>>

NextPhone == FormatCall

SpecPhone == InitPhone /\ [][NextPhone]_vars

(***************************************************************************)
(* Specification of category resolution alone.                             *)
(***************************************************************************)
KeyVectors ==
  {k \in [FamilySet -> 0..MaxId] :
     Cardinality({f \in FamilySet : k[f] > 0}) <= MaxPositive}

FailSets == {F \in SUBSET FamilySet : Cardinality(F) <= MaxFailing}

InitResolve ==
  /\ pc = "call"
  /\ \E k \in KeyVectors, F \in FailSets :
       req = [fn |-> "getLocationName", keys |-> k, failing |-> F]
  /\ resp = NoResp
  /\ issued = << >>
  /\ db = NoFault
  /\ Production

ResolveCall ==
  /\ pc = "call"
  /\ req.fn = "getLocationName"
  /\ LET r == getLocationName(req.keys, req.failing)
     IN /\ resp' = [kind |-> IF r.rejected THEN "rejected" ELSE "value", value |-> r.label]
        /\ issued' = r.lookups
  /\ pc' = "returned"
  /\ UNCHANGED <<req, db, nodeEnv, proc, pool, sent>>

NextResolve == ResolveCall

SpecResolve == InitResolve /\ [][NextResolve]_vars

(***************************************************************************)
(* The store: phone_record joined with province_info and state_info, in    *)
(* the order the store returns the rows.  A NULL column is the empty       *)
(* string or the id 0, which is what the handlers turn it into.            *)
(***************************************************************************)
NoKeys == [f \in FamilySet |-> 0]

Rec(id, f, l, p, p1, p2, keys, prov, st) ==
  [record_id |-> id, rank |-> << >>, f_name |-> f, l_name |-> l,
   phone |-> p, phone1 |-> p1, phone2 |-> p2, keys |-> keys,
   province |-> prov, state_name |-> st]

NumRecords == 5

RecordAt(n) ==
  CASE n = 1 -> Rec(1, <<"a", "d", "a">>, <<"o", "b", "i">>, <<"0", "8", "3">>, << >>, << >>,
         [NoKeys EXCEPT !["location"] = 1], <<"k", "a", "n", "o">>, <<"k", "n">>)
    [] n = 2 -> Rec(2, << >>, << >>, << >>, <<"2", "3", "4", " ", "7">>, <<"0", "9">>,
         [NoKeys EXCEPT !["mk"] = 2, !["md"] = 2], << >>, << >>)
    [] n = 3 -> Rec(3, <<"b", "a", "l", "a">>, << >>, << >>, << >>, <<"0", "7">>,
         [NoKeys EXCEPT !["location"] = 3, !["service"] = 1], <<"k", "a", "n", "o">>, <<"k", "n">>)
    [] n = 4 -> Rec(12, <<" ", "i", "d", "a">>, <<"o", "k", "o">>, <<"+", "7", "1">>, << >>, << >>,
         [NoKeys EXCEPT !["location"] = 1, !["mk"] = 1], <<"o", "y", "o">>, <<"o", "y">>)
    [] n = 5 -> Rec(5, << >>, <<"u", "c", "h", "e">>, << >>, << >>, << >>,
         [NoKeys EXCEPT !["location"] = 2], <<"o", "y", "o">>, << >>)
    [] OTHER -> Rec(20 + n, <<"a", "l", "i">>, << >>, <<"0", "7">>, << >>, << >>,
         [NoKeys EXCEPT !["location"] = 3], <<"k", "a", "n", "o">>, <<"k", "n">>)

PhoneRecords == [n \in 1..NumRecords |-> RecordAt(n)]

(***************************************************************************)
(* Query parameters.  A parameter is << >> when the request does not carry *)
(* it and <<s>> when it carries the string s.                              *)
(***************************************************************************)
Absent == << >>

Truthy(o) == o # << >> /\ o[1] # << >>

Active(o) == Truthy(o) /\ trim(o[1]) # << >>

Or(a, b) == IF a # << >> THEN a ELSE b

parseLimitNoFloor(limitParam) ==
  IF Truthy(limitParam) THEN MathMin(Num(1000), parseInt(limitParam[1])) ELSE Num(50)

parseLimit(limitParam) ==
  IF Truthy(limitParam)
  THEN MathMax(Num(1), MathMin(Num(1000), parseInt(limitParam[1])))
  ELSE Num(50)

parseOffset(offsetParam) ==
  IF Truthy(offsetParam) THEN MathMax(Num(0), parseInt(offsetParam[1])) ELSE Num(0)

parseLimitAlt(limitParam) ==
  IF Truthy(limitParam)
  THEN MathMax(Num(1), MathMin(Num(1000), parseInt(limitParam[1])))
  ELSE Num(50)

parseOffsetAlt(offsetParam) ==
  IF Truthy(offsetParam) THEN MathMax(Num(0), parseInt(offsetParam[1])) ELSE Num(0)

(***************************************************************************)
(* The WHERE clause of the page and count queries.  pick is the result of  *)
(* the scalar subquery on the location table: {} (NULL) or {id}.           *)
(***************************************************************************)
Like(column, term) == Contains(column, trim(term))

LocationSubquery(q) ==
  LET ids == {id \in DOMAIN CatTable["location"] :
                Like(CatTable["location"][id], q.location[1])}
  IN IF ids = {} THEN {{}} ELSE {{id} : id \in ids}

LocationIdEqualsOrNoMatch(r, pick) == pick = {} \/ r.keys["location"] \in pick

LocationIdEquals(r, pick) == r.keys["location"] \in pick

Where(r, q, pick) ==
  /\ Active(q.search) =>
       \/ Like(r.f_name, q.search[1])
       \/ Like(r.l_name, q.search[1])
       \/ Like(r.phone, q.search[1])
       \/ Like(r.phone1, q.search[1])
       \/ Like(r.phone2, q.search[1])
  /\ Active(q.province) => Like(r.province, q.province[1])
  /\ Active(q.state) => Like(r.state_name, q.state[1])
  /\ Active(q.location) => LocationIdEquals(r, pick)

Selected(q, pick) == SelectSeq(PhoneRecords, LAMBDA r : Where(r, q, pick))

Page(rows, limit, offset) ==
  SubSeq(rows, offset + 1, IF offset + limit < Len(rows) THEN offset + limit ELSE Len(rows))

(***************************************************************************)
(* Contact assembly.                                                       *)
(***************************************************************************)
ContactPrefersPhone2(row, locationName) ==
  LET fullName == trim(row.f_name \o <<" ">> \o row.l_name)
      primaryPhone == Or(row.phone, Or(row.phone2, Or(row.phone1, << >>)))
  IN [id |-> toString(row.record_id),
      name |-> Or(fullName, Unknown),
      location |-> locationName,
      phone |-> primaryPhone,
      whatsapp |-> formatWhatsAppNumber(primaryPhone),
      rank |-> Or(row.rank, << >>),
      province |-> Or(row.province, << >>),
      state |-> Or(row.state_name, << >>),
      category |-> locationName]

Contact(row, locationName) ==
  LET fullName == trim(row.f_name \o <<" ">> \o row.l_name)
      primaryPhone == Or(row.phone, Or(row.phone1, Or(row.phone2, << >>)))
  IN [id |-> toString(row.record_id),
      name |-> Or(fullName, Unknown),
      location |-> locationName,
      phone |-> primaryPhone,
      whatsapp |-> formatWhatsAppNumber(primaryPhone),
      rank |-> Or(row.rank, << >>),
      province |-> Or(row.province, << >>),
      state |-> Or(row.state_name, << >>),
      category |-> locationName]

Lookups(row, r) ==
  [i \in 1..Len(r.lookups) |->
     [kind |-> "lookup", table |-> r.lookups[i], id |-> row.keys[r.lookups[i]],
      record |-> row.record_id]]

RECURSIVE Flatten(_)
Flatten(ss) == IF ss = << >> THEN << >> ELSE Head(ss) \o Flatten(Tail(ss))

(***************************************************************************)
(* Responses.                                                              *)
(***************************************************************************)
Json(status, body) == [kind |-> "http", status |-> status, body |-> body]

InternalError == Json(500, [success |-> FALSE, error |-> "Internal server error"])

StoreErrorMessage == "connect ECONNREFUSED"

ContactsError ==
  IF nodeEnv = "development"
  THEN Json(500, [success |-> FALSE, error |-> "Internal server error",
                  message |-> StoreErrorMessage])
  ELSE InternalError

InvalidDatabaseResponse == Json(500, [error |-> "Invalid database response"])

hasMoreInclusive(offset, returned, total) == offset + returned <= total

hasMore(offset, returned, total) == offset + returned < total

(***************************************************************************)
(* GET /api/contacts and GET /api/contacts-alt.                            *)
(***************************************************************************)
ListRoutes == {"/api/contacts", "/api/contacts-alt"}

ListHandler(route, q, fault, pagePick, countPick) ==
  LET limit == IF route = "/api/contacts" THEN parseLimit(q.limit) ELSE parseLimitAlt(q.limit)
      offset == IF route = "/api/contacts" THEN parseOffset(q.offset)
                ELSE parseOffsetAlt(q.offset)
  IN IF isNaN(limit) \/ isNaN(offset)
     THEN [resp |-> Json(400, [success |-> FALSE, error |-> "Invalid limit or offset parameters"]),
           issued |-> << >>]
     ELSE LET pageQuery == [kind |-> "page", limit |-> limit.v, offset |-> offset.v,
                            pick |-> pagePick]
          IN IF fault.pageFails
             THEN [resp |-> ContactsError, issued |-> <<pageQuery>>]
             ELSE IF fault.notArray
             THEN [resp |-> InvalidDatabaseResponse, issued |-> <<pageQuery>>]
             ELSE LET rows == Page(Selected(q, pagePick), limit.v, offset.v)
                  IN IF Len(rows) = 0
                     THEN [resp |-> Json(200, [success |-> TRUE, data |-> << >>,
                                      pagination |-> [total |-> 0, limit |-> limit.v,
                                                      offset |-> offset.v, hasMore |-> FALSE]]),
                           issued |-> <<pageQuery>>]
                     ELSE LET names == [i \in 1..Len(rows) |->
                                          getLocationName(rows[i].keys, fault.failing)]
                              contacts == [i \in 1..Len(rows) |-> Contact(rows[i], names[i].label)]
                              lookups == Flatten([i \in 1..Len(rows) |-> Lookups(rows[i], names[i])])
                              countQuery == [kind |-> "count", pick |-> countPick]
                              total == Len(Selected(q, countPick))
                          IN IF \E i \in 1..Len(rows) : names[i].rejected
                             THEN [resp |-> ContactsError, issued |-> <<pageQuery>> \o lookups]
                             ELSE IF fault.countFails
                             THEN [resp |-> ContactsError,
                                   issued |-> <<pageQuery>> \o lookups \o <<countQuery>>]
                             ELSE [resp |-> Json(200, [success |-> TRUE, data |-> contacts,
                                              pagination |-> [total |-> total, limit |-> limit.v,
                                                 offset |-> offset.v,
                                                 hasMore |-> hasMore(offset.v, Len(contacts), total)]]),
                                   issued |-> <<pageQuery>> \o lookups \o <<countQuery>>]

(***************************************************************************)
(* GET /api/contacts/:id.                                                  *)
(***************************************************************************)
NeverInvalid(contactId) == FALSE

InvalidId(contactId) == isNaN(contactId)

GetByIdHandler(id, fault) ==
  LET contactId == parseInt(id)
  IN IF InvalidId(contactId)
     THEN [resp |-> Json(400, [success |-> FALSE, error |-> "Invalid contact ID"]),
           issued |-> << >>]
     ELSE LET byId == [kind |-> "byId", id |-> contactId.v]
          IN IF fault.pageFails
             THEN [resp |-> InternalError, issued |-> <<byId>>]
             ELSE LET rows == SelectSeq(PhoneRecords,
                                        LAMBDA r : ~contactId.nan /\ r.record_id = contactId.v)
                  IN IF fault.notArray \/ Len(rows) = 0
                     THEN [resp |-> Json(404, [success |-> FALSE, error |-> "Contact not found"]),
                           issued |-> <<byId>>]
                     ELSE LET row == rows[1]
                              r == getLocationName(row.keys, fault.failing)
                          IN IF r.rejected
                             THEN [resp |-> InternalError, issued |-> <<byId>> \o Lookups(row, r)]
                             ELSE [resp |-> Json(200, [success |-> TRUE,
                                                       data |-> Contact(row, r.label)]),
                                   issued |-> <<byId>> \o Lookups(row, r)]

(***************************************************************************)
(* The server: one request at a time is followed from arrival to response. *)
(***************************************************************************)
Given(text) == <<text>>

LimitParams ==
  {Absent, Given(<< >>), Given(<<"0">>), Given(<<"-", "5">>), Given(<<"2">>), Given(<<"1", "0", "0", "1">>),
   Given(<<"a", "b", "c">>), Given(<<"2", "x">>)}

OffsetParams == {Absent, Given(<<"1">>), Given(<<"9">>), Given(<<"-", "1">>), Given(<<"x">>)}

SearchParams == {Absent, Given(<<"a">>)}

ProvinceParams == {Absent, Given(<<"k", "a", "n">>)}

StateParams == {Absent, Given(<<" ", "o", "y">>)}

LocationParams == {Absent, Given(<<" ">>), Given(<<"k", "a">>), Given(<<"n", "o", " ">>), Given(<<"z", "z">>)}

IdParams ==
  {<<"1">>, <<"2">>, <<"1", "2">>, <<"7">>, <<"a", "b", "c">>, <<"3", "x">>, <<"-", "1">>}

LookupFaults == {{}, FamilySet, {"location"}, {"mk"}, {"md"}}

Faults ==
  {[pageFails |-> TRUE, countFails |-> FALSE, failing |-> {}, notArray |-> FALSE]}
  \cup [pageFails : {FALSE}, countFails : BOOLEAN, failing : LookupFaults, notArray : {FALSE}]

Init ==
  /\ pc = "idle"
  /\ req = [route |-> "none"]
  /\ resp = NoResp
  /\ issued = << >>
  /\ db = NoFault
  /\ Production

ListContacts ==
  /\ pc = "idle"
  /\ \E route \in ListRoutes, limit \in LimitParams, offset \in OffsetParams,
        search \in SearchParams, province \in ProvinceParams, state \in StateParams,
        location \in LocationParams, fault \in Faults :
       LET q == [limit |-> limit, offset |-> offset, search |-> search,
                 province |-> province, state |-> state, location |-> location]
           picks == IF Active(location) THEN LocationSubquery(q) ELSE {{}}
       IN \E pagePick \in picks, countPick \in picks :
            LET h == ListHandler(route, q, fault, pagePick, countPick)
            IN /\ req' = [route |-> route, query |-> q]
               /\ db' = fault
               /\ resp' = h.resp
               /\ issued' = h.issued
  /\ pc' = "done"
  /\ sent' = 1
  /\ UNCHANGED <<nodeEnv, proc, pool>>

GetContactById ==
  /\ pc = "idle"
  /\ \E id \in IdParams, fault \in Faults :
       LET h == GetByIdHandler(id, fault)
       IN /\ req' = [route |-> "/api/contacts/:id", id |-> id]
          /\ db' = fault
          /\ resp' = h.resp
          /\ issued' = h.issued
  /\ pc' = "done"
  /\ sent' = 1
  /\ UNCHANGED <<nodeEnv, proc, pool>>

NextRequest ==
  /\ pc = "done"
  /\ pc' = "idle"
  /\ req' = [route |-> "none"]
  /\ resp' = NoResp
  /\ issued' = << >>
  /\ db' = NoFault
  /\ sent' = 0
  /\ UNCHANGED <<nodeEnv, proc, pool>>

Next == ListContacts \/ GetContactById \/ NextRequest

Spec == Init /\ [][Next]_vars

(***************************************************************************)
(* GET /api/locations.  contents maps each table to the labels of its      *)
(* rows in the order the store returns them; a NULL label is the empty     *)
(* string.  failing is the set of tables whose SELECT raises an error.     *)
(***************************************************************************)
tables == <<"location", "mk", "md", "muas", "nrt", "field", "medical", "service">>

Upper == <<"A", "B", "C", "D", "E", "F", "G", "H", "I", "J", "K", "L", "M",
           "N", "O", "P", "Q", "R", "S", "T", "U", "V", "W", "X", "Y", "Z">>

Lower == <<"a", "b", "c", "d", "e", "f", "g", "h", "i", "j", "k", "l", "m",
           "n", "o", "p", "q", "r", "s", "t", "u", "v", "w", "x", "y", "z">>

IndexIn(ch, alphabet) == CHOOSE i \in 1..Len(alphabet) : alphabet[i] = ch

\* UTF-16 code unit of a character, which Array.prototype.sort compares.
charCodeAt(ch) ==
  IF ch = " " THEN 32
  ELSE IF ch = "+" THEN 43
  ELSE IF ch = "-" THEN 45
  ELSE IF IsDigit(ch) THEN 48 + DigitVal(ch)
  ELSE IF \E i \in 1..Len(Upper) : Upper[i] = ch THEN 64 + IndexIn(ch, Upper)
  ELSE 96 + IndexIn(ch, Lower)

RECURSIVE StringLess(_, _)
StringLess(a, b) ==
  IF b = << >> THEN FALSE
  ELSE IF a = << >> THEN TRUE
  ELSE IF a[1] = b[1] THEN StringLess(Tail(a), Tail(b))
  ELSE charCodeAt(a[1]) < charCodeAt(b[1])

RECURSIVE Insert(_, _)
Insert(x, sorted) ==
  IF sorted = << >> THEN <<x>>
  ELSE IF StringLess(x, Head(sorted)) THEN <<x>> \o sorted
  ELSE <<Head(sorted)>> \o Insert(x, Tail(sorted))

sortKeepsOrder(xs) == xs

RECURSIVE sort(_)
sort(xs) ==
  IF xs = << >> THEN << >>
  ELSE Insert(xs[Len(xs)], sort(SubSeq(xs, 1, Len(xs) - 1)))

includes(xs, x) == \E i \in 1..Len(xs) : xs[i] = x

RECURSIVE pushRows(_, _)
pushRows(locations, labels) ==
  IF labels = << >> THEN locations
  ELSE pushRows(IF Head(labels) # << >> /\ ~includes(locations, Head(labels))
                THEN Append(locations, Head(labels))
                ELSE locations,
                Tail(labels))

RECURSIVE readTables(_, _, _, _)
readTables(i, contents, failing, locations) ==
  IF i > Len(tables) THEN locations
  ELSE readTables(i + 1, contents, failing,
                  IF tables[i] \in failing THEN locations
                  ELSE pushRows(locations, contents[tables[i]]))

TableQueries == [i \in 1..Len(tables) |-> [kind |-> "table", table |-> tables[i]]]

LocationsHandlerFatal(contents, failing) ==
  IF failing # {}
  THEN [resp |-> InternalError,
        issued |-> SubSeq(TableQueries, 1,
                          CHOOSE i \in 1..Len(tables) :
                            tables[i] \in failing /\ \A j \in 1..(i - 1) : tables[j] \notin failing)]
  ELSE [resp |-> Json(200, [success |-> TRUE,
                           data |-> sort(readTables(1, contents, failing, << >>))]),
        issued |-> TableQueries]

LocationsHandler(contents, failing) ==
  [resp |-> Json(200, [success |-> TRUE,
                       data |-> sort(readTables(1, contents, failing, << >>))]),
   issued |-> TableQueries]

\* The rows of the category tables used by getLocationName, in id order.
LabelsOf(f) ==
  LET ids == DOMAIN CatTable[f]
  IN [k \in 1..Cardinality(ids) |->
        CatTable[f][CHOOSE id \in ids : Cardinality({j \in ids : j < id}) = k - 1]]

StoredContents == [f \in FamilySet |-> LabelsOf(f)]

MaxRows == 2

SeqsUpTo(S, n) == UNION {[1..k -> S] : k \in 0..n}

LocationLabels == {<< >>, <<"k", "a", "n", "o">>, <<"Z", "a", "r", "i", "a">>}

TableContents ==
  {[StoredContents EXCEPT !["mk"] = mk, !["md"] = md] :
     mk \in SeqsUpTo(LocationLabels, MaxRows), md \in SeqsUpTo(LocationLabels, MaxRows)}

InitLocations ==
  /\ pc = "idle"
  /\ req = [route |-> "/api/locations"]
  /\ resp = NoResp
  /\ issued = << >>
  /\ \E c \in TableContents, F \in FailSets : db = [contents |-> c, failing |-> F]
  /\ Production

ListLocations ==
  /\ pc = "idle"
  /\ req.route = "/api/locations"
  /\ LET h == LocationsHandler(db.contents, db.failing)
     IN /\ resp' = h.resp
        /\ issued' = h.issued
  /\ pc' = "done"
  /\ sent' = 1
  /\ UNCHANGED <<req, db, nodeEnv, proc, pool>>

NextLocations == ListLocations

SpecLocations == InitLocations /\ [][NextLocations]_vars

(***************************************************************************)
(* The connection pool.  pool counts the connections that are checked out  *)
(* and will never be given back.  getConnection and pool.execute wait      *)
(* while every connection of the pool is checked out.                      *)
(***************************************************************************)
ConnectionLimit == 2

\* Outcomes of getConnection followed by execute('SELECT 1 as test'):
\* the connection cannot be made, the query fails on a live connection,
\* the connection dies during the query (the pool discards it), or both
\* succeed.
StoreOutcomes == {"ok", "connectFails", "queryFails", "connectionLost"}

\* held is the number of connections still checked out when the try block
\* of the round trip is left: release is only called after a successful
\* query.
RoundTrip(outcome) ==
  [ok |-> outcome = "ok", held |-> IF outcome = "queryFails" THEN 1 ELSE 0]

(***************************************************************************)
(* Startup.                                                                *)
(***************************************************************************)
Starting == [state |-> "starting", connected |-> FALSE, exitCode |-> 0]

testDatabaseConnection ==
  /\ proc.state = "starting"
  /\ \E outcome \in StoreOutcomes :
       LET r == RoundTrip(outcome)
       IN /\ proc' = [proc EXCEPT !.state = "probed", !.connected = r.ok]
          /\ pool' = pool + r.held
  /\ UNCHANGED <<pc, req, resp, issued, db, nodeEnv, sent>>

startupAlwaysListens(connected) == "listening"

startup(connected) == IF connected THEN "listening" ELSE "exited"

Launch ==
  /\ proc.state = "probed"
  /\ proc' = [proc EXCEPT !.state = startup(proc.connected),
                          !.exitCode = IF startup(proc.connected) = "exited" THEN 1 ELSE 0]
  /\ UNCHANGED <<pc, req, resp, issued, db, nodeEnv, pool, sent>>

(***************************************************************************)
(* The remaining endpoints.                                                *)
(***************************************************************************)
ProvinceInfo == <<[province_id |-> 1, province |-> <<"k", "a", "n", "o">>],
                  [province_id |-> 2, province |-> <<"o", "y", "o">>]>>

StateInfo == <<[state_id |-> 1, state_name |-> <<"k", "n">>],
               [state_id |-> 2, state_name |-> <<"o", "y">>]>>

ReferenceHandler(rows, outcome) ==
  IF outcome = "ok" THEN Json(200, [success |-> TRUE, data |-> rows]) ELSE InternalError

TestDataHandler(outcome) ==
  IF outcome = "ok"
  THEN Json(200, [success |-> TRUE,
                  phone_record_count |-> Len(PhoneRecords),
                  sample_data |-> SubSeq(PhoneRecords, 1,
                                         IF Len(PhoneRecords) < 5 THEN Len(PhoneRecords) ELSE 5),
                  tables_info |-> [location |-> Cardinality(DOMAIN CatTable["location"]),
                                   provinces |-> Len(ProvinceInfo),
                                   states |-> Len(StateInfo)]])
  ELSE Json(500, [success |-> FALSE, error |-> "Internal server error",
                  message |-> StoreErrorMessage])

HealthHandler(outcome) ==
  IF RoundTrip(outcome).ok
  THEN Json(200, [success |-> TRUE, message |-> "API is running",
                  database |-> "connected", timestamp |-> "now"])
  ELSE Json(500, [success |-> FALSE,
                  message |-> "API is running but database connection failed",
                  database |-> "disconnected", error |-> StoreErrorMessage,
                  timestamp |-> "now"])

RouteNotFound(path) ==
  Json(404, [success |-> FALSE, error |-> "Route not found", path |-> path])

(***************************************************************************)
(* The running server: one request at a time, from arrival to response.    *)
(***************************************************************************)
NoQuery == [limit |-> Absent, offset |-> Absent, search |-> Absent,
            province |-> Absent, state |-> Absent, location |-> Absent]

ApiQueries ==
  {NoQuery, [NoQuery EXCEPT !.limit = Given(<<"a", "b", "c">>)],
   [NoQuery EXCEPT !.limit = Given(<<"2">>), !.offset = Given(<<"9">>)]}

ApiIds == {<<"1">>, <<"7">>, <<"a", "b", "c">>}

ApiRequests ==
  [route : ListRoutes, query : ApiQueries]
  \cup [route : {"/api/contacts/:id"}, id : ApiIds]
  \cup [route : {"/api/locations", "/api/provinces", "/api/states", "/api/test-data",
                 "/api/health", "/api/unknown"}]

LocationFaults == {{}, {"mk"}, FamilySet}

\* The answers of GET /api/locations over the stored tables.
StoredLocations == [F \in LocationFaults |-> LocationsHandler(StoredContents, F)]

WithStore(fault, outcome) ==
  [pageFails |-> fault.pageFails, countFails |-> fault.countFails, failing |-> fault.failing,
   notArray |-> fault.notArray, store |-> outcome]

ContactFaults ==
  {NoFault, [NoFault EXCEPT !.pageFails = TRUE], [NoFault EXCEPT !.countFails = TRUE],
   [NoFault EXCEPT !.notArray = TRUE], [NoFault EXCEPT !.failing = {"location"}]}

ApiFaults(r) ==
  IF r.route \in ListRoutes \cup {"/api/contacts/:id"}
  THEN {WithStore(f, "ok") : f \in ContactFaults}
  ELSE IF r.route = "/api/locations"
  THEN {WithStore([NoFault EXCEPT !.failing = F], "ok") : F \in LocationFaults}
  ELSE IF r.route = "/api/unknown"
  THEN {WithStore(NoFault, "ok")}
  ELSE {WithStore(NoFault, outcome) : outcome \in StoreOutcomes}

\* Whether the handler reaches a store call before it responds.
NeedsStore(r) ==
  IF r.route \in ListRoutes
  THEN LET limit == IF r.route = "/api/contacts" THEN parseLimit(r.query.limit)
                    ELSE parseLimitAlt(r.query.limit)
           offset == IF r.route = "/api/contacts" THEN parseOffset(r.query.offset)
                     ELSE parseOffsetAlt(r.query.offset)
       IN ~(isNaN(limit) \/ isNaN(offset))
  ELSE IF r.route = "/api/contacts/:id" THEN ~InvalidId(parseInt(r.id))
  ELSE r.route # "/api/unknown"

ConnectionFree(r) == NeedsStore(r) => pool < ConnectionLimit

InitApi ==
  /\ pc = "idle"
  /\ req = [route |-> "none"]
  /\ resp = NoResp
  /\ issued = << >>
  /\ db = NoFault
  /\ nodeEnv \in {"production", "development"}
  /\ proc = Starting
  /\ pool = 0
  /\ sent = 0

Arrive ==
  /\ proc.state = "listening"
  /\ pc = "idle"
  /\ \E r \in ApiRequests : \E fault \in ApiFaults(r) :
       /\ req' = r
       /\ db' = fault
  /\ pc' = "handling"
  /\ UNCHANGED <<resp, issued, nodeEnv, proc, pool, sent>>

Respond(h, held) ==
  /\ resp' = h.resp
  /\ issued' = h.issued
  /\ pool' = pool + held
  /\ sent' = sent + 1
  /\ pc' = "done"
  /\ UNCHANGED <<req, db, nodeEnv, proc>>

ServeContacts ==
  /\ pc = "handling"
  /\ req.route \in ListRoutes
  /\ ConnectionFree(req)
  /\ Respond(ListHandler(req.route, req.query, db, {}, {}), 0)

ServeContactById ==
  /\ pc = "handling"
  /\ req.route = "/api/contacts/:id"
  /\ ConnectionFree(req)
  /\ Respond(GetByIdHandler(req.id, db), 0)

ServeLocations ==
  /\ pc = "handling"
  /\ req.route = "/api/locations"
  /\ ConnectionFree(req)
  /\ Respond(StoredLocations[db.failing], 0)

ServeProvinces ==
  /\ pc = "handling"
  /\ req.route = "/api/provinces"
  /\ ConnectionFree(req)
  /\ Respond([resp |-> ReferenceHandler(ProvinceInfo, db.store),
              issued |-> <<[kind |-> "table", table |-> "province_info"]>>], 0)

ServeStates ==
  /\ pc = "handling"
  /\ req.route = "/api/states"
  /\ ConnectionFree(req)
  /\ Respond([resp |-> ReferenceHandler(StateInfo, db.store),
              issued |-> <<[kind |-> "table", table |-> "state_info"]>>], 0)

ServeTestData ==
  /\ pc = "handling"
  /\ req.route = "/api/test-data"
  /\ ConnectionFree(req)
  /\ Respond([resp |-> TestDataHandler(db.store),
              issued |-> <<[kind |-> "count", table |-> "phone_record"]>>], 0)

ServeHealth ==
  /\ pc = "handling"
  /\ req.route = "/api/health"
  /\ ConnectionFree(req)
  /\ Respond([resp |-> HealthHandler(db.store),
              issued |-> IF db.store = "connectFails" THEN << >>
                         ELSE <<[kind |-> "select1"]>>],
             RoundTrip(db.store).held)

ServeNotFound ==
  /\ pc = "handling"
  /\ req.route = "/api/unknown"
  /\ Respond([resp |-> RouteNotFound(req.route), issued |-> << >>], 0)

NextApi ==
  \/ testDatabaseConnection
  \/ Launch
  \/ Arrive
  \/ ServeContacts
  \/ ServeContactById
  \/ ServeLocations
  \/ ServeProvinces
  \/ ServeStates
  \/ ServeTestData
  \/ ServeHealth
  \/ ServeNotFound
  \/ NextRequest

SpecApi == InitApi /\ [][NextApi]_vars

\* Node runs every callback that is ready.
FairSpecApi == SpecApi /\ WF_vars(NextApi)

(***************************************************************************)
(* Promise.all(rows.map(async row => ...)) of the list handlers.  Every    *)
(* row's callback awaits getLocationName and completes at a time of its    *)
(* own; issued records the order of completion.  Promise.all keeps each    *)
(* value at the index of its promise and resolves once all are in.         *)
(***************************************************************************)
MaxPage == 3

Pages ==
  {SubSeq(PhoneRecords, a, b) : a \in 1..Len(PhoneRecords), b \in 1..Len(PhoneRecords)}
  \cap {rows \in SeqsUpTo({PhoneRecords[n] : n \in 1..Len(PhoneRecords)}, MaxPage) : Len(rows) >= 1}

Pending == << >>

SlotByArrival(i, completed) == Len(completed) + 1

SlotOf(i, completed) == i

InitPage ==
  /\ pc = "resolving"
  /\ \E rows \in Pages, F \in {{}, {"location"}} :
       /\ req = [route |-> "/api/contacts", rows |-> rows]
       /\ db = [NoFault EXCEPT !.failing = F]
       /\ resp = [kind |-> "pending", values |-> [i \in 1..Len(rows) |-> Pending]]
  /\ issued = << >>
  /\ Production

RowResolved ==
  /\ pc = "resolving"
  /\ \E i \in 1..Len(req.rows) :
       /\ \A k \in 1..Len(issued) : issued[k] # i
       /\ LET name == getLocationName(req.rows[i].keys, db.failing)
          IN resp' = [resp EXCEPT !.values[SlotOf(i, issued)] =
                                     <<Contact(req.rows[i], name.label)>>]
       /\ issued' = Append(issued, i)
  /\ UNCHANGED <<pc, req, db, nodeEnv, proc, pool, sent>>

AllResolved ==
  /\ pc = "resolving"
  /\ Len(issued) = Len(req.rows)
  /\ resp' = Json(200, [success |-> TRUE,
                        data |-> [i \in 1..Len(resp.values) |->
                                    IF resp.values[i] = Pending THEN Pending
                                    ELSE resp.values[i][1]]])
  /\ pc' = "done"
  /\ sent' = 1
  /\ UNCHANGED <<req, issued, db, nodeEnv, proc, pool>>

NextPage == RowResolved \/ AllResolved

SpecPage == InitPage /\ [][NextPage]_vars

(***************************************************************************)
(* Properties of category resolution (SpecResolve).                        *)
(***************************************************************************)
PriorityOrder == <<"location", "mk", "md", "muas", "nrt", "field", "medical", "service">>

PositiveAt(k) == {i \in 1..8 : k[PriorityOrder[i]] > 0}

HasRow(k, i) == k[PriorityOrder[i]] \in DOMAIN CatTable[PriorityOrder[i]]

RowLabel(k, i) == CatTable[PriorityOrder[i]][k[PriorityOrder[i]]]

Least(S) == CHOOSE i \in S : \A j \in S : i <= j

ResolveReturned == pc = "returned" /\ req.fn = "getLocationName"

\* C1: the eight keys are checked in the order location, mk, md, muas, nrt,
\* field, medical, service.  When the first key > 0 has a row with that id
\* and its lookup returns it, the result is that row's label; that table is
\* the only one consulted even if later keys are positive.  When no key is
\* > 0 the result is "Unknown" and no lookup is issued.
C1_FirstMatchWins ==
  ResolveReturned =>
    LET k == req.keys
        P == PositiveAt(k)
    IN IF P = {}
       THEN resp.value = Unknown /\ issued = << >>
       ELSE LET i == Least(P)
            IN HasRow(k, i) =>
                 /\ issued = <<PriorityOrder[i]>>
                 /\ PriorityOrder[i] \notin req.failing => resp.value = RowLabel(k, i)

C1_Witness ==
  /\ ResolveReturned
  /\ req.keys["location"] = 0
  /\ req.keys["mk"] = 1
  /\ req.keys["md"] = 2
  /\ req.failing = {}
  /\ resp.value = CatTable["mk"][1]
  /\ issued = <<"mk">>

\* The positions that end resolution: a positive key whose lookup raises a
\* store error or finds a row.
Decisive(k, F) == {i \in PositiveAt(k) : PriorityOrder[i] \in F \/ HasRow(k, i)}

FirstMisses(k, F) ==
  /\ PositiveAt(k) # {}
  /\ ~HasRow(k, Least(PositiveAt(k)))
  /\ PriorityOrder[Least(PositiveAt(k))] \notin F

\* C2 as stated: if the first positive key has no row in its table the
\* result is "Unknown", never a label of a lower-priority table.
C2_Original ==
  (ResolveReturned /\ FirstMisses(req.keys, req.failing)) => resp.value = Unknown

\* C2 (amended): if the first positive key has no row in its table,
\* resolution goes on to the later positive keys in priority order: the
\* result is the label of the first later positive key that has a row, and
\* "Unknown" only if no later positive key has a row or a lookup on the way
\* raises a store error.
C2_FallsThroughOnMiss ==
  (ResolveReturned /\ FirstMisses(req.keys, req.failing)) =>
    LET k == req.keys
        D == Decisive(k, req.failing)
    IN IF D = {}
       THEN /\ resp.value = Unknown
            /\ Len(issued) = Cardinality(PositiveAt(k))
       ELSE /\ resp.value =
                 IF PriorityOrder[Least(D)] \in req.failing THEN Unknown
                 ELSE RowLabel(k, Least(D))
            /\ issued[Len(issued)] = PriorityOrder[Least(D)]
            /\ Len(issued) = Cardinality({i \in PositiveAt(k) : i <= Least(D)})

C2_Witness ==
  /\ ResolveReturned
  /\ req.keys["location"] = 0
  /\ req.keys["mk"] = 2
  /\ req.keys["md"] = 2
  /\ req.failing = {}
  /\ resp.value = CatTable["md"][2]
  /\ issued = <<"mk", "md">>

\* The position whose lookup raises a store error, when one is reached:
\* every earlier positive key was looked up without error and had no row.
ErrorReached(k, F) ==
  /\ Decisive(k, F) # {}
  /\ PriorityOrder[Least(Decisive(k, F))] \in F

Matching(k, F) == {i \in PositiveAt(k) : PriorityOrder[i] \notin F /\ HasRow(k, i)}

\* C4 as stated: a lookup error on a key counts as "no row" for that key
\* only, so the result is that of the first positive key whose lookup
\* succeeds and finds a row.
C4_Original ==
  ResolveReturned =>
    resp.value = IF Matching(req.keys, req.failing) = {} THEN Unknown
                 ELSE RowLabel(req.keys, Least(Matching(req.keys, req.failing)))

\* C4 (amended): a lookup error on a key ends category resolution: the
\* result is "Unknown" and no later key is looked up, even when a later
\* positive key has a row in its table.
C4_ErrorEndsResolution ==
  (ResolveReturned /\ ErrorReached(req.keys, req.failing)) =>
    /\ resp.value = Unknown
    /\ issued[Len(issued)] = PriorityOrder[Least(Decisive(req.keys, req.failing))]
    /\ Len(issued) =
         Cardinality({i \in PositiveAt(req.keys) : i <= Least(Decisive(req.keys, req.failing))})

C4_Witness ==
  /\ ResolveReturned
  /\ req.keys["location"] = 1
  /\ req.keys["mk"] = 1
  /\ req.failing = {"location"}
  /\ resp.value = Unknown
  /\ issued = <<"location">>

(***************************************************************************)
(* Properties of the phone normaliser (SpecPhone).                         *)
(***************************************************************************)
RECURSIVE OnlyDigitsOf(_)
OnlyDigitsOf(s) ==
  IF s = << >> THEN << >>
  ELSE IF Head(s) \in Digits THEN <<Head(s)>> \o OnlyDigitsOf(Tail(s))
  ELSE OnlyDigitsOf(Tail(s))

Begins234(s) == Len(s) >= 3 /\ s[1] = "2" /\ s[2] = "3" /\ s[3] = "4"

\* C5: formatWhatsAppNumber is the reference normaliser: "" gives "";
\* otherwise non-digits are stripped, a leading "0" is replaced by "234", a
\* string not starting with "234" gets "234" prepended and one starting with
\* "234" is unchanged; so the output has only digits and, for a non-empty
\* input, starts with "234".
C5_PhoneNormalised ==
  (pc = "returned" /\ req.fn = "formatWhatsAppNumber") =>
    LET p == req.phone
        out == resp.value
        c == OnlyDigitsOf(p)
    IN /\ p = << >> => out = << >>
       /\ p # << >> =>
            /\ (c # << >> /\ c[1] = "0") => out = <<"2", "3", "4">> \o Tail(c)
            /\ ((c = << >> \/ c[1] # "0") /\ ~Begins234(c)) => out = <<"2", "3", "4">> \o c
            /\ Begins234(c) => out = c
            /\ Begins234(out)
       /\ \A i \in 1..Len(out) : out[i] \in Digits

C5_Witness ==
  /\ pc = "returned"
  /\ req.fn = "formatWhatsAppNumber"
  /\ req.phone = <<"0", "-", "7", "2">>
  /\ resp.value = <<"2", "3", "4", "7", "2">>

(***************************************************************************)
(* Properties of the request handlers (Spec).                              *)
(***************************************************************************)
ListDone == pc = "done" /\ req.route \in {"/api/contacts", "/api/contacts-alt"}

GetDone == pc = "done" /\ req.route = "/api/contacts/:id"

AllLabels == UNION {{CatTable[f][id] : id \in DOMAIN CatTable[f]} : f \in DOMAIN CatTable}

FailedLookups == {i \in 1..Len(issued) : issued[i].kind = "lookup" /\ issued[i].table \in db.failing}

Labelled(c) == c.location \in AllLabels \cup {Unknown} /\ c.category = c.location

\* C3: a store error raised by a lookup inside category resolution is never
\* propagated: unless the handler's own page, by-id or count query fails,
\* the list-contacts or get-contact-by-id request is not answered with a
\* 500; a success response carries a label on every contact, and the
\* contact whose lookup failed carries "Unknown".
C3_ResolutionErrorsAbsorbed ==
  ((ListDone \/ GetDone) /\ ~db.pageFails /\ ~db.countFails /\ ~db.notArray) =>
    /\ resp.status # 500
    /\ FailedLookups # {} => resp.status = 200
    /\ (ListDone /\ resp.status = 200) =>
         \A i \in 1..Len(resp.body.data) :
           /\ Labelled(resp.body.data[i])
           /\ (\E j \in FailedLookups :
                 toString(issued[j].record) = resp.body.data[i].id)
                => resp.body.data[i].location = Unknown
    /\ (GetDone /\ resp.status = 200) =>
         /\ Labelled(resp.body.data)
         /\ FailedLookups # {} => resp.body.data.location = Unknown

C3_Witness ==
  /\ ListDone
  /\ db.failing = {"location"}
  /\ FailedLookups # {}
  /\ resp.status = 200
  /\ Len(resp.body.data) >= 2
  /\ resp.body.data[1].location = Unknown
  /\ resp.body.data[2].location # Unknown

\* A parameter text that does not begin (after blanks and one optional
\* sign) with a decimal digit.
NonNumericText(s) ==
  ~\E i \in 1..Len(s) :
     /\ s[i] \in Digits
     /\ \A j \in 1..(i - 1) :
          \/ s[j] = " " /\ (\A m \in 1..j : s[m] = " ")
          \/ j = i - 1 /\ s[j] \in {"-", "+"} /\ (\A m \in 1..(j - 1) : s[m] = " ")

Carried(o) == o # << >> /\ o[1] # << >>

\* C6: every list-contacts request, on /api/contacts and on
\* /api/contacts-alt, is either rejected with a 400 before any store query
\* is issued, or puts into the page query a limit in 1..1000 (50 when
\* absent) and an offset >= 0 (0 when absent); limit=0 and limit=-5 are
\* clamped to 1, and a limit or offset that is not numeric is rejected.
C6_PaginationValidated ==
  ListDone =>
    LET lim == req.query.limit
        off == req.query.offset
        bad == \/ Carried(lim) /\ NonNumericText(lim[1])
               \/ Carried(off) /\ NonNumericText(off[1])
    IN /\ bad => (resp.status = 400 /\ issued = << >>)
       /\ resp.status = 400 => issued = << >>
       /\ resp.status # 400 =>
            /\ issued # << >>
            /\ issued[1].kind = "page"
            /\ issued[1].limit \in 1..1000
            /\ issued[1].offset \in Nat
            /\ ~Carried(lim) => issued[1].limit = 50
            /\ ~Carried(off) => issued[1].offset = 0
            /\ (Carried(lim) /\ lim[1] \in {<<"0">>, <<"-", "5">>}) => issued[1].limit = 1
            /\ \A i \in 2..Len(issued) : issued[i].kind # "page"

C6_Witness ==
  /\ ListDone
  /\ req.route = "/api/contacts-alt"
  /\ req.query.limit = <<<<"-", "5">>>>
  /\ req.query.offset = <<<<"-", "1">>>>
  /\ resp.status = 200
  /\ issued[1].limit = 1
  /\ issued[1].offset = 0
  /\ Len(resp.body.data) = 1

\* The records that satisfy the request's filter predicate, the location
\* subquery having resolved to pick.
Satisfying(q, pick) == {n \in 1..Len(PhoneRecords) : Where(PhoneRecords[n], q, pick)}

Picks(q) == IF Active(q.location) THEN LocationSubquery(q) ELSE {{}}

\* C7: in every successful list-contacts response pagination.total is the
\* number of records that satisfy the request's filter predicate, whatever
\* the limit and offset.
C7_TotalIsFilterCount ==
  (ListDone /\ resp.status = 200) =>
    \E pick \in Picks(req.query) :
      resp.body.pagination.total = Cardinality(Satisfying(req.query, pick))

\* C8: in every successful list-contacts response the limit is in 1..1000,
\* the offset is >= 0, at most limit contacts are returned, and hasMore is
\* true exactly when offset + (number of returned contacts) < total.
C8_PageWithinLimit ==
  (ListDone /\ resp.status = 200) =>
    LET pg == resp.body.pagination
        n == Len(resp.body.data)
    IN /\ pg.limit \in 1..1000
       /\ pg.offset \in Nat
       /\ n <= pg.limit
       /\ pg.hasMore <=> (pg.offset + n < pg.total)

C8_Witness ==
  /\ ListDone
  /\ resp.status = 200
  /\ req.query.limit = <<<<"2">>>>
  /\ req.query.offset = <<<<"1">>>>
  /\ Len(resp.body.data) = 2
  /\ resp.body.pagination.total > 3
  /\ resp.body.pagination.hasMore

C8_WitnessLastPage ==
  /\ ListDone
  /\ resp.status = 200
  /\ Len(resp.body.data) > 0
  /\ resp.body.pagination.offset + Len(resp.body.data) = resp.body.pagination.total
  /\ ~resp.body.pagination.hasMore

\* The ids of the location rows whose name contains the trimmed filter.
MatchingLocations(term) ==
  {id \in DOMAIN CatTable["location"] :
     \E i \in 0..Len(CatTable["location"][id]) :
       \E j \in i..Len(CatTable["location"][id]) :
         SubSeq(CatTable["location"][id], i + 1, j) = trim(term)}

RecordOf(c) == CHOOSE n \in 1..Len(PhoneRecords) : toString(PhoneRecords[n].record_id) = c.id

\* C9: when a list-contacts request carries a location filter that is not
\* empty once trimmed and no row of the location table has a name
\* containing it, the response has zero contacts and a total of 0.  When
\* some location matches, every returned record has the location_id that the
\* page query's subquery resolved to, which is one matching location, and
\* the count query counts the records that satisfy the same filters with its
\* own resolution of that subquery.
C9_LocationFilter ==
  (ListDone /\ resp.status = 200 /\ Carried(req.query.location)
     /\ trim(req.query.location[1]) # << >>) =>
    LET M == MatchingLocations(req.query.location[1])
        data == resp.body.data
    IN /\ M = {} => (data = << >> /\ resp.body.pagination.total = 0)
       /\ M # {} =>
            /\ \E id \in M :
                 /\ issued[1].pick = {id}
                 /\ \A i \in 1..Len(data) :
                      PhoneRecords[RecordOf(data[i])].keys["location"] = id
            /\ data # << >> =>
                 \E id \in M :
                   /\ issued[Len(issued)].kind = "count"
                   /\ issued[Len(issued)].pick = {id}
                   /\ resp.body.pagination.total =
                        Cardinality({n \in Satisfying([req.query EXCEPT !.location = << >>], {}) :
                                       PhoneRecords[n].keys["location"] = id})

C9_Witness ==
  /\ ListDone
  /\ resp.status = 200
  /\ req.query.location = <<<<"z", "z">>>>
  /\ req.query.search = << >>
  /\ req.query.province = << >>
  /\ req.query.state = << >>
  /\ req.query.offset = << >>
  /\ resp.body.data = << >>
  /\ resp.body.pagination.total = 0

C9_WitnessMatch ==
  /\ ListDone
  /\ resp.status = 200
  /\ req.query.location = <<<<"n", "o", " ">>>>
  /\ Len(resp.body.data) = 2
  /\ resp.body.pagination.total = 2

\* The optionally signed decimal prefix of an id text.
RECURSIVE DigitPrefix(_)
DigitPrefix(s) ==
  IF s # << >> /\ Head(s) \in Digits THEN <<Head(s)>> \o DigitPrefix(Tail(s)) ELSE << >>

IdText(s) ==
  IF s # << >> /\ Head(s) = "-" THEN <<"-">> \o DigitPrefix(Tail(s)) ELSE DigitPrefix(s)

RecordsWithId(s) ==
  {n \in 1..Len(PhoneRecords) : toString(PhoneRecords[n].record_id) = IdText(s)}

\* C10: get contact by id: an id that does not parse as an integer yields a
\* 400 and no store query; an integer id with no matching record yields a
\* 404; an integer id with a matching record yields a success response with
\* that record's contact; while the by-id query works, no id yields a 5xx.
C10_GetById ==
  GetDone =>
    /\ NonNumericText(req.id) => (resp.status = 400 /\ issued = << >>)
    /\ (~NonNumericText(req.id) /\ ~db.pageFails /\ ~db.notArray) =>
         IF RecordsWithId(req.id) = {}
         THEN resp.status = 404
         ELSE /\ resp.status = 200
              /\ resp.body.success
              /\ \E n \in RecordsWithId(req.id) :
                   /\ resp.body.data.id = toString(PhoneRecords[n].record_id)
                   /\ resp.body.data.province = PhoneRecords[n].province
                   /\ resp.body.data.state = PhoneRecords[n].state_name
                   /\ resp.body.data.phone \in
                        {PhoneRecords[n].phone, PhoneRecords[n].phone1, PhoneRecords[n].phone2}
    /\ ~db.pageFails => resp.status < 500

C10_Witness ==
  /\ GetDone
  /\ req.id = <<"1", "2">>
  /\ resp.status = 200
  /\ resp.body.data.id = <<"1", "2">>
  /\ resp.body.data.location = CatTable["location"][1]

C10_WitnessInvalid ==
  /\ GetDone
  /\ req.id = <<"a", "b", "c">>
  /\ resp.status = 400
  /\ issued = << >>

(***************************************************************************)
(* Contact assembly (Spec).                                                *)
(***************************************************************************)
AllBlank(s) == \A i \in 1..Len(s) : s[i] = " "

\* n is text with its leading and trailing blanks removed.
IsTrimOf(n, text) ==
  \E i \in 1..(Len(text) + 1) : \E j \in (i - 1)..Len(text) :
    /\ n = SubSeq(text, i, j)
    /\ AllBlank(SubSeq(text, 1, i - 1))
    /\ AllBlank(SubSeq(text, j + 1, Len(text)))
    /\ n # << >> => (n[1] # " " /\ n[Len(n)] # " ")

RefName(r) ==
  LET full == r.f_name \o <<" ">> \o r.l_name
  IN IF AllBlank(full) THEN Unknown ELSE CHOOSE n \in {SubSeq(full, i, j) :
         i \in 1..Len(full), j \in 1..Len(full)} : n # << >> /\ IsTrimOf(n, full)

RefPhone(r) ==
  IF r.phone # << >> THEN r.phone
  ELSE IF r.phone1 # << >> THEN r.phone1
  ELSE IF r.phone2 # << >> THEN r.phone2
  ELSE << >>

RefWhatsApp(p) ==
  IF p = << >> THEN << >>
  ELSE LET c == OnlyDigitsOf(p)
       IN IF c # << >> /\ c[1] = "0" THEN <<"2", "3", "4">> \o Tail(c)
          ELSE IF Begins234(c) THEN c
          ELSE <<"2", "3", "4">> \o c

AssembledFrom(c, r) ==
  /\ c.id = toString(r.record_id)
  /\ c.name = RefName(r)
  /\ c.phone = RefPhone(r)
  /\ c.whatsapp = RefWhatsApp(RefPhone(r))
  /\ c.location = c.category

IsAssembled(c) == \E n \in 1..Len(PhoneRecords) : AssembledFrom(c, PhoneRecords[n])

\* C11: every contact returned by the list and get-by-id endpoints is the
\* reference assembly of its record: id is the record_id as a string; name
\* is first + " " + last trimmed, or "Unknown" when that is empty; phone is
\* the first non-empty of phone, phone1, phone2, or ""; whatsapp is the
\* normalisation of that phone; location and category are the same label.
C11_ContactAssembly ==
  /\ (ListDone /\ resp.status = 200) =>
       \A i \in 1..Len(resp.body.data) : IsAssembled(resp.body.data[i])
  /\ (GetDone /\ resp.status = 200) => IsAssembled(resp.body.data)

C11_Witness ==
  /\ ListDone
  /\ resp.status = 200
  /\ Len(resp.body.data) = 5
  /\ resp.body.data[2].id = <<"2">>
  /\ resp.body.data[2].name = Unknown
  /\ resp.body.data[2].phone = <<"2", "3", "4", " ", "7">>
  /\ resp.body.data[2].whatsapp = <<"2", "3", "4", "7">>
  /\ resp.body.data[4].name = <<"i", "d", "a", " ", "o", "k", "o">>
  /\ resp.body.data[4].location = resp.body.data[4].category

(***************************************************************************)
(* List locations (SpecLocations).                                         *)
(***************************************************************************)
LocationsDone == pc = "done" /\ req.route = "/api/locations"

\* a sorts before b in code-unit order.
Precedes(a, b) ==
  \E k \in 1..(Len(a) + 1) :
    /\ k <= Len(b)
    /\ \A j \in 1..(k - 1) : a[j] = b[j]
    /\ k = Len(a) + 1 \/ charCodeAt(a[k]) < charCodeAt(b[k])

Ascending(xs) == \A i \in 1..Len(xs), j \in 1..Len(xs) : i < j => Precedes(xs[i], xs[j])

LabelsRead ==
  UNION {{db.contents[f][i] : i \in 1..Len(db.contents[f])} : f \in FamilySet \ db.failing}
  \ {<< >>}

DataSet == {resp.body.data[i] : i \in 1..Len(resp.body.data)}

\* C12: the list-locations data is strictly ascending in code-unit order
\* (so it holds no string twice), holds no empty string, and holds every
\* non-empty label of every table that could be read.
C12_LocationsSortedDistinct ==
  LocationsDone =>
    /\ resp.status = 200
    /\ Ascending(resp.body.data)
    /\ << >> \notin DataSet
    /\ LabelsRead \subseteq DataSet

C12_Witness ==
  /\ LocationsDone
  /\ db.failing = {}
  /\ db.contents["mk"] = <<<<"k", "a", "n", "o">>, << >>>>
  /\ db.contents["md"] = <<<<"Z", "a", "r", "i", "a">>, <<"k", "a", "n", "o">>>>
  /\ resp.body.data[1] = <<"Z", "a", "r", "i", "a">>
  /\ Len(resp.body.data) = Cardinality(LabelsRead)

\* C13: whichever tables fail, list-locations answers 200 success, all
\* eight tables are queried in order, and the data is exactly the ascending
\* duplicate-free list of the non-empty labels of the tables that were read.
C13_TableFailureSkipped ==
  LocationsDone =>
    /\ resp.status = 200
    /\ resp.body.success
    /\ [i \in 1..Len(issued) |-> issued[i].table] = tables
    /\ DataSet = LabelsRead
    /\ Ascending(resp.body.data)

C13_Witness ==
  /\ LocationsDone
  /\ db.failing = {"mk"}
  /\ db.contents["mk"] = <<<<"Z", "a", "r", "i", "a">>>>
  /\ db.contents["md"] = <<<<"k", "a", "n", "o">>>>
  /\ resp.status = 200
  /\ <<"Z", "a", "r", "i", "a">> \notin DataSet
  /\ <<"s", "v", "1">> \in DataSet
  /\ Len(issued) = 8

(***************************************************************************)
(* The running server (SpecApi).                                           *)
(***************************************************************************)
HealthDone == pc = "done" /\ req.route = "/api/health"

Unreachable == db.store \in {"connectFails", "connectionLost"}

\* C14: the health check never answers with a 4xx; when the round trip
\* succeeds it answers 200 success:true; when the store is unreachable it
\* answers the degraded body (success:false, database "disconnected") with
\* a status below 500, and the process stays up.
C14_HealthDegradesGracefully ==
  HealthDone =>
    /\ resp.status \notin 400..499
    /\ db.store = "ok" => (resp.status = 200 /\ resp.body.success)
    /\ Unreachable => /\ ~resp.body.success
                      /\ resp.body.database = "disconnected"
                      /\ resp.status < 500
                      /\ proc.state = "listening"

\* C15: every response with an error status has a body with success:false
\* and an error field.
C15_ErrorBodyShape ==
  (pc = "done" /\ resp.status >= 400) =>
    /\ "success" \in DOMAIN resp.body
    /\ ~resp.body.success
    /\ "error" \in DOMAIN resp.body

\* C16: in production no response carries the store error's message.
C16_NoDetailInProduction ==
  (pc = "done" /\ nodeEnv = "production") =>
    \A k \in {"error", "message"} \cap DOMAIN resp.body : resp.body[k] # StoreErrorMessage

\* C17: whenever no request is in flight (and after the startup probe has
\* returned) no connection is checked out of the pool.
C17_NoLeakedConnections == pc \in {"idle", "done"} => pool = 0

ProbeSucceeded == proc.connected

\* C18: the server listens only after a successful probe; after a failed
\* probe the process has exit code 1 and has served nothing; requests are
\* handled only while listening, and a listening server never stops
\* listening whatever the store does.
C18_ListenOnlyAfterProbe ==
  /\ [](/\ proc.state = "listening" => ProbeSucceeded
        /\ proc.state = "exited" =>
             (~ProbeSucceeded /\ proc.exitCode = 1 /\ pc = "idle" /\ sent = 0 /\ resp = NoResp)
        /\ pc # "idle" => proc.state = "listening")
  /\ [][/\ proc.state = "listening" => proc'.state = "listening"
        /\ pc' # pc => proc.state = "listening"]_vars

C18_Witness ==
  /\ HealthDone
  /\ db.store = "connectionLost"
  /\ resp.status = 500
  /\ proc.state = "listening"

\* C20: no request gets two responses, and every request that has arrived
\* is eventually answered exactly once.
C20_EveryRequestAnsweredOnce ==
  /\ [](sent <= 1)
  /\ (pc = "handling") ~> (pc = "done" /\ sent = 1)

(***************************************************************************)
(* Order of the contacts of a page (SpecPage).                             *)
(***************************************************************************)
\* C19: when the page is answered, the data holds one contact per row of
\* the page query, the i-th contact built from the i-th row (its id and
\* its own resolved label), whatever the order in which the rows'
\* resolutions completed.
C19_ContactsFollowRows ==
  (pc = "done" /\ "rows" \in DOMAIN req) =>
    /\ Len(resp.body.data) = Len(req.rows)
    /\ \A i \in 1..Len(req.rows) :
         /\ resp.body.data[i] # Pending
         /\ resp.body.data[i].id = toString(req.rows[i].record_id)
         /\ resp.body.data[i].location = getLocationName(req.rows[i].keys, db.failing).label

C19_Witness ==
  /\ pc = "done"
  /\ "rows" \in DOMAIN req
  /\ issued = <<3, 1, 2>>
  /\ req.rows[1].record_id = 2
  /\ resp.body.data[1].id = <<"2">>
  /\ resp.body.data[3].id = <<"1", "2">>

====
